---------------------------- MODULE Spec2Model ----------------------------
(***************************************************************************)
(* Model of transport/http/context.go: the per-request HTTP context        *)
(* wrapper (type wrapper) with its accessors, responders, Reset and the    *)
(* context.Context methods.                                                *)
(*                                                                         *)
(* Requests and response writers are objects identified by small ids; 0    *)
(* is the nil pointer / nil interface.  The collaborators the wrapper      *)
(* calls (http.ResponseWriter, Request.ParseForm, mux.Vars, io.Copy, the   *)
(* json/xml encoders and the server's configured encoder) are modelled by  *)
(* what the wrapper can observe of them at the call sites.                 *)
(***************************************************************************)
EXTENDS Integers, Sequences, FiniteSets, TLC

VARIABLES
    c,          \* the wrapper: [route, req, res]
    attached,   \* history: arguments of the most recent Reset call
    everReset,  \* history: has Reset been called on this wrapper
    ctxErr,     \* per request: state of its cancellation context
    form,       \* per request: the Form field (set by ParseForm)
    ress,       \* per response writer: its observable state
    calls,      \* per response writer: responder calls that reached it
    ret         \* the last call on the wrapper: inputs and results

vars == <<c, attached, everReset, ctxErr, form, ress, calls, ret>>

\* Responder calls explored per response writer.
MaxCalls == 1

Nil == 0
Reqs == {1, 2}
Ress == {1, 2}
Routes == {1, 2}

Codes == {201, 404}
CallerTypes == {"image/png"}
Vals == {"v1", "chan"}
Errs == {"nil", "ErrBadRequest"}
Keys == {"user", "trace"}
Texts == {<<"a", "b">>}
\* Bytes the connection still accepts during one call (2 covers every body).
AccVals == {0, 1, 2}
Readers == { [content |-> <<"a", "b">>, fail |-> FALSE],
             [content |-> <<"a", "b">>, fail |-> TRUE],
             [content |-> <<>>,         fail |-> FALSE] }

EmptyValues == [k \in {} |-> <<>>]

-----------------------------------------------------------------------------
(* The requests: what the standard library and the router hold for each.   *)

\* http.Request.Header
ReqHeader(r) ==
    IF r = 1 THEN [k \in {"Accept"} |-> <<"application/json">>]
    ELSE EmptyValues

\* mux.Vars(req): the router's route variables, a map string -> string.
MuxVars(r) ==
    IF r = 1 THEN [k \in {"id", "name"} |->
                      IF k = "id" THEN "42" ELSE "bob"]
    ELSE [k \in {} |-> ""]

\* The raw query of the request URL, segment by segment; ok = FALSE is a
\* segment url.ParseQuery rejects (bad escape).
RawQuery(r) ==
    IF r = 1
    THEN << [k |-> "a", v |-> "1", ok |-> TRUE],
            [k |-> "a", v |-> "2", ok |-> TRUE],
            [k |-> "b", v |-> "3", ok |-> TRUE] >>
    ELSE << [k |-> "a", v |-> "1", ok |-> TRUE],
            [k |-> "z", v |-> "",  ok |-> FALSE],
            [k |-> "b", v |-> "3", ok |-> TRUE] >>

\* url.ParseQuery: keeps parsing after a bad segment, returns the first error
\* together with what was parsed.
RECURSIVE ParseQueryFrom(_, _, _)
ParseQueryFrom(raw, i, acc) ==
    IF i > Len(raw) THEN acc
    ELSE LET s == raw[i] IN
         IF ~s.ok
         THEN ParseQueryFrom(raw, i + 1,
                  [acc EXCEPT !.err = IF @ = "nil" THEN "EINVAL" ELSE @])
         ELSE LET old == IF s.k \in DOMAIN acc.vals THEN acc.vals[s.k] ELSE <<>>
                  new == [k \in DOMAIN acc.vals \cup {s.k} |->
                             IF k = s.k THEN Append(old, s.v) ELSE acc.vals[k]]
              IN ParseQueryFrom(raw, i + 1, [acc EXCEPT !.vals = new])

ParseQuery(raw) == ParseQueryFrom(raw, 1, [vals |-> EmptyValues, err |-> "nil"])

\* Request.ParseForm: parses once; a later call finds Form set and returns nil.
ParseForm(r) ==
    IF form[r].set THEN [form |-> form[r], err |-> "nil"]
    ELSE LET p == ParseQuery(RawQuery(r)) IN
         [form |-> [set |-> TRUE, vals |-> p.vals], err |-> p.err]

\* The request's context.Context.
CtxHasDeadline(r) == r = 2
CtxDeadline(r) == IF CtxHasDeadline(r) THEN [t |-> 1000 + r, ok |-> TRUE]
                  ELSE [t |-> 0, ok |-> FALSE]
CtxDone(r) == IF r = 1 THEN "done1" ELSE "done2"
CtxValue(r, key) == IF r = 1 /\ key = "user" THEN "alice" ELSE "<nil>"

NoDeadline == [t |-> 0, ok |-> FALSE]
NilChan == "<nilchan>"
NilValue == "<nil>"

-----------------------------------------------------------------------------
(* http.ResponseWriter as the wrapper drives it.  A frame is the writer    *)
(* during one call: its state, the methods called on it so far, the error  *)
(* of the last Write, the encoder invocations and whether the call         *)
(* panicked (a method call on the nil interface).                          *)

FreshRes == [hdr |-> "", wrote |-> FALSE, status |-> 0, sentCT |-> "",
             body |-> <<>>]

Frame == [nil |-> c.res = Nil,
          w |-> IF c.res = Nil THEN FreshRes ELSE ress[c.res],
          tr |-> <<>>, err |-> "nil", enc |-> <<>>, panic |-> FALSE]

\* ResponseWriter.WriteHeader: the first call fixes the status and sends the
\* header map as it is now; later calls are superfluous and ignored.
RW_WriteHeader(f, code) ==
    IF f.nil \/ f.panic THEN [f EXCEPT !.panic = TRUE]
    ELSE LET g == [f EXCEPT !.tr = Append(@, "WriteHeader")] IN
         IF f.w.wrote THEN g
         ELSE [g EXCEPT !.w.wrote = TRUE, !.w.status = code,
                        !.w.sentCT = f.w.hdr]

\* ResponseWriter.Header().Set("Content-Type", ct): changes the header map;
\* after WriteHeader the map is no longer what is sent.
RW_SetContentType(f, ct) ==
    IF f.nil \/ f.panic THEN [f EXCEPT !.panic = TRUE]
    ELSE [f EXCEPT !.w.hdr = ct, !.tr = Append(@, "Header.Set")]

\* ResponseWriter.Write(data) on a connection that accepts n more bytes: an
\* implicit WriteHeader(200) if none was written, then the bytes that fit.
RW_Write(f, data, n) ==
    IF f.nil \/ f.panic THEN [f EXCEPT !.panic = TRUE]
    ELSE LET g == IF f.w.wrote THEN f
                  ELSE [f EXCEPT !.w.wrote = TRUE, !.w.status = 200,
                                 !.w.sentCT = f.w.hdr]
             k == IF n < Len(data) THEN n ELSE Len(data)
         IN [g EXCEPT !.w.body = @ \o SubSeq(data, 1, k),
                      !.tr = Append(@, "Write"),
                      !.err = IF k < Len(data) THEN "EPIPE" ELSE "nil"]

\* What the encoders produce.  "chan" is a value no encoder can serialize.
Encodable(v) == v # "chan"
JSONBytes(v) == <<"{json:v1}", "\n">>
XMLBytes(v) == <<"<xml:v1/>">>
EncBytes(srv, v) == IF srv = 1 THEN <<"enc1:v1">> ELSE <<"enc2:v1">>

\* json.NewEncoder(w).Encode(v): marshals, then one Write of the text and a
\* newline; a marshal error writes nothing.
JSONEncode(f, v, n) ==
    IF ~Encodable(v) THEN [f EXCEPT !.err = "UnsupportedType"]
    ELSE RW_Write(f, JSONBytes(v), n)

\* xml.NewEncoder(w).Encode(v): marshals into its buffer, then flushes.
XMLEncode(f, v, n) ==
    IF ~Encodable(v) THEN [f EXCEPT !.err = "UnsupportedType"]
    ELSE RW_Write(f, XMLBytes(v), n)

\* c.route.srv.enc(res, req, v): the encoder the server was configured with.
SrvOf(route) == route
SrvEnc(f, srv, res, req, v, n) ==
    LET g == [f EXCEPT !.enc = Append(@, <<res, req>>)] IN
    IF ~Encodable(v) THEN [g EXCEPT !.err = "EncodingError"]
    ELSE RW_Write(g, EncBytes(srv, v), n)

\* io.Copy(w, rd): read a chunk, write it, until the reader ends (EOF or a
\* read error) or a Write fails.
RECURSIVE IoCopy(_, _, _, _)
IoCopy(f, rd, pos, n) ==
    IF pos > Len(rd.content)
    THEN [f EXCEPT !.err = IF rd.fail THEN "EREAD" ELSE "nil"]
    ELSE LET g == RW_Write(f, <<rd.content[pos]>>, IF n > 0 THEN 1 ELSE 0) IN
         IF g.panic \/ g.err # "nil" THEN g
         ELSE IoCopy(g, rd, pos + 1, n - 1)

-----------------------------------------------------------------------------
(* The record of the last call.                                            *)

NoRet == [op |-> "none", code |-> 0, ct |-> "", v |-> "", inerr |-> "nil",
          data |-> <<>>, rfail |-> FALSE, acc |-> 0, key |-> "",
          res |-> Nil, req |-> Nil,
          val |-> "", err |-> "nil", panic |-> FALSE, tr |-> <<>>,
          enc |-> <<>>]

\* A call that only reads: it returns val, or panics.
Returned(call, val) ==
    /\ ret' = [call EXCEPT !.val = val]
    /\ UNCHANGED <<c, attached, everReset, ctxErr, form, ress, calls>>

Panicked(call) ==
    /\ ret' = [call EXCEPT !.panic = TRUE]
    /\ UNCHANGED <<c, attached, everReset, ctxErr, form, ress, calls>>

\* A responder call that ran to frame f and returns err.
Responded(call, f, err) ==
    /\ IF f.panic
       THEN /\ ret' = [call EXCEPT !.panic = TRUE]
            /\ UNCHANGED <<ress, calls>>
       ELSE /\ ret' = [call EXCEPT !.err = err, !.tr = f.tr, !.enc = f.enc]
            /\ ress' = IF c.res = Nil THEN ress
                       ELSE [ress EXCEPT ![c.res] = f.w]
            /\ calls' = IF c.res = Nil \/ f.tr = <<>> THEN calls
                        ELSE [calls EXCEPT ![c.res] = @ + 1]
    /\ UNCHANGED <<c, attached, everReset, ctxErr, form>>

\* The bound on responder calls per response writer.
CanRespond == IF c.res = Nil THEN TRUE ELSE calls[c.res] < MaxCalls

-----------------------------------------------------------------------------
Init ==
    /\ c \in [route : Routes, req : {Nil}, res : {Nil}]
    /\ attached = [res |-> Nil, req |-> Nil]
    /\ everReset = FALSE
    /\ ctxErr = [r \in Reqs |-> "nil"]
    /\ form = [r \in Reqs |-> [set |-> FALSE, vals |-> EmptyValues]]
    /\ ress = [w \in Ress |-> FreshRes]
    /\ calls = [w \in Ress |-> 0]
    /\ ret = NoRet

-----------------------------------------------------------------------------
(* The wrapper's methods, one action each.                                 *)

\* Reset that rebinds the request and keeps the old response writer.
Reset_KeepsRes(res, req) ==
    /\ c' = [c EXCEPT !.req = req]
    /\ attached' = [res |-> res, req |-> req]
    /\ everReset' = TRUE
    /\ ret' = [NoRet EXCEPT !.op = "Reset", !.res = res, !.req = req]
    /\ UNCHANGED <<ctxErr, form, ress, calls>>

\* func (c *wrapper) Reset(res, req)
Reset(res, req) ==
    /\ c' = [c EXCEPT !.res = res, !.req = req]
    /\ attached' = [res |-> res, req |-> req]
    /\ everReset' = TRUE
    /\ ret' = [NoRet EXCEPT !.op = "Reset", !.res = res, !.req = req]
    /\ UNCHANGED <<ctxErr, form, ress, calls>>

\* func (c *wrapper) Request()
Request == Returned([NoRet EXCEPT !.op = "Request"], c.req)

\* func (c *wrapper) Response()
Response == Returned([NoRet EXCEPT !.op = "Response"], c.res)

\* func (c *wrapper) Header()
Header ==
    LET call == [NoRet EXCEPT !.op = "Header"] IN
    IF c.req = Nil THEN Panicked(call)
    ELSE Returned(call, ReqHeader(c.req))

\* func (c *wrapper) Query()
Query ==
    LET call == [NoRet EXCEPT !.op = "Query"] IN
    IF c.req = Nil THEN Panicked(call)
    ELSE Returned(call, ParseQuery(RawQuery(c.req)).vals)

\* Vars that appends the key where the value belongs.
Vars_KeyAsValue ==
    LET call == [NoRet EXCEPT !.op = "Vars"] IN
    IF c.req = Nil THEN Panicked(call)
    ELSE LET raws == MuxVars(c.req) IN
         Returned(call, [k \in DOMAIN raws |-> <<k>>])

\* func (c *wrapper) Vars()
Vars ==
    LET call == [NoRet EXCEPT !.op = "Vars"] IN
    IF c.req = Nil THEN Panicked(call)
    ELSE LET raws == MuxVars(c.req) IN
         Returned(call, [k \in DOMAIN raws |-> <<raws[k]>>])

\* Form that returns the request's Form whether or not the parse failed.
Form_ReturnsPartial ==
    LET call == [NoRet EXCEPT !.op = "Form"] IN
    IF c.req = Nil THEN Panicked(call)
    ELSE LET p == ParseForm(c.req) IN
         /\ form' = [form EXCEPT ![c.req] = p.form]
         /\ ret' = [call EXCEPT !.val = p.form.vals]
         /\ UNCHANGED <<c, attached, everReset, ctxErr, ress, calls>>

\* func (c *wrapper) Form()
Form ==
    LET call == [NoRet EXCEPT !.op = "Form"] IN
    IF c.req = Nil THEN Panicked(call)
    ELSE LET p == ParseForm(c.req) IN
         /\ form' = [form EXCEPT ![c.req] = p.form]
         /\ ret' = [call EXCEPT !.val = IF p.err # "nil" THEN EmptyValues
                                        ELSE p.form.vals]
         /\ UNCHANGED <<c, attached, everReset, ctxErr, ress, calls>>

\* Deadline that never asks the request's context.
Deadline_NoForward ==
    Returned([NoRet EXCEPT !.op = "Deadline"], NoDeadline)

\* func (c *wrapper) Deadline()
Deadline ==
    Returned([NoRet EXCEPT !.op = "Deadline"],
             IF c.req = Nil THEN NoDeadline ELSE CtxDeadline(c.req))

\* Done without the nil check: the nil request is dereferenced.
Done_NoNilGuard ==
    LET call == [NoRet EXCEPT !.op = "Done"] IN
    IF c.req = Nil THEN Panicked(call)
    ELSE Returned(call, CtxDone(c.req))

\* func (c *wrapper) Done()
Done ==
    Returned([NoRet EXCEPT !.op = "Done"],
             IF c.req = Nil THEN NilChan ELSE CtxDone(c.req))

\* func (c *wrapper) Err()
Err ==
    Returned([NoRet EXCEPT !.op = "Err"],
             IF c.req = Nil THEN "Canceled" ELSE ctxErr[c.req])

\* func (c *wrapper) Value(key)
Value(key) ==
    Returned([NoRet EXCEPT !.op = "Value", !.key = key],
             IF c.req = Nil THEN NilValue ELSE CtxValue(c.req, key))

\* Returns that encodes v before it looks at err.
Returns_NoShortCircuit(v, err, n) ==
    LET call == [NoRet EXCEPT !.op = "Returns", !.v = v, !.inerr = err,
                              !.acc = n]
        f == SrvEnc(Frame, SrvOf(c.route), c.res, c.req, v, n)
    IN Responded(call, f, IF err # "nil" THEN err ELSE f.err)

\* func (c *wrapper) Returns(v, err)
Returns(v, err, n) ==
    LET call == [NoRet EXCEPT !.op = "Returns", !.v = v, !.inerr = err,
                              !.acc = n] IN
    IF err # "nil" THEN Responded(call, Frame, err)
    ELSE LET f == SrvEnc(Frame, SrvOf(c.route), c.res, c.req, v, n) IN
         Responded(call, f, f.err)

\* Result that encodes the body before it writes the status code.
Result_EncodeFirst(code, v, n) ==
    LET call == [NoRet EXCEPT !.op = "Result", !.code = code, !.v = v,
                              !.acc = n]
        f1 == SrvEnc(Frame, SrvOf(c.route), c.res, c.req, v, n)
        f2 == IF f1.panic THEN f1
              ELSE [RW_WriteHeader(f1, code) EXCEPT !.err = f1.err]
    IN Responded(call, f2, f2.err)

\* func (c *wrapper) Result(code, v)
Result(code, v, n) ==
    LET call == [NoRet EXCEPT !.op = "Result", !.code = code, !.v = v,
                              !.acc = n]
        f1 == RW_WriteHeader(Frame, code)
        f2 == IF f1.panic THEN f1
              ELSE SrvEnc(f1, SrvOf(c.route), c.res, c.req, v, n)
    IN Responded(call, f2, f2.err)

\* func (c *wrapper) JSON(code, v)
JSON(code, v, n) ==
    LET call == [NoRet EXCEPT !.op = "JSON", !.code = code, !.v = v,
                              !.ct = "application/json", !.acc = n]
        f1 == RW_WriteHeader(Frame, code)
        f2 == RW_SetContentType(f1, "application/json")
        f3 == IF f2.panic THEN f2 ELSE JSONEncode(f2, v, n)
    IN Responded(call, f3, f3.err)

\* func (c *wrapper) XML(code, v)
XML(code, v, n) ==
    LET call == [NoRet EXCEPT !.op = "XML", !.code = code, !.v = v,
                              !.ct = "application/xml", !.acc = n]
        f1 == RW_WriteHeader(Frame, code)
        f2 == RW_SetContentType(f1, "application/xml")
        f3 == IF f2.panic THEN f2 ELSE XMLEncode(f2, v, n)
    IN Responded(call, f3, f3.err)

\* String that returns the error of its Write.
String_ReturnsWriteErr(code, text, n) ==
    LET call == [NoRet EXCEPT !.op = "String", !.code = code, !.data = text,
                              !.ct = "text/plain", !.acc = n]
        f1 == RW_WriteHeader(Frame, code)
        f2 == RW_SetContentType(f1, "text/plain")
        f3 == RW_Write(f2, text, n)
    IN Responded(call, f3, f3.err)

\* func (c *wrapper) String(code, text)
String(code, text, n) ==
    LET call == [NoRet EXCEPT !.op = "String", !.code = code, !.data = text,
                              !.ct = "text/plain", !.acc = n]
        f1 == RW_WriteHeader(Frame, code)
        f2 == RW_SetContentType(f1, "text/plain")
        f3 == RW_Write(f2, text, n)
    IN Responded(call, f3, "nil")

\* func (c *wrapper) Blob(code, contentType, data)
Blob(code, contentType, data, n) ==
    LET call == [NoRet EXCEPT !.op = "Blob", !.code = code, !.data = data,
                              !.ct = contentType, !.acc = n]
        f1 == RW_WriteHeader(Frame, code)
        f2 == RW_SetContentType(f1, contentType)
        f3 == RW_Write(f2, data, n)
    IN Responded(call, f3, "nil")

\* Stream that discards the error of the copy, as String and Blob do.
Stream_DropsError(code, contentType, rd, n) ==
    LET call == [NoRet EXCEPT !.op = "Stream", !.code = code,
                              !.data = rd.content, !.rfail = rd.fail,
                              !.ct = contentType, !.acc = n]
        f1 == RW_WriteHeader(Frame, code)
        f2 == RW_SetContentType(f1, contentType)
        f3 == IF f2.panic THEN f2 ELSE IoCopy(f2, rd, 1, n)
    IN Responded(call, f3, "nil")

\* func (c *wrapper) Stream(code, contentType, rd)
Stream(code, contentType, rd, n) ==
    LET call == [NoRet EXCEPT !.op = "Stream", !.code = code,
                              !.data = rd.content, !.rfail = rd.fail,
                              !.ct = contentType, !.acc = n]
        f1 == RW_WriteHeader(Frame, code)
        f2 == RW_SetContentType(f1, contentType)
        f3 == IF f2.panic THEN f2 ELSE IoCopy(f2, rd, 1, n)
    IN Responded(call, f3, f3.err)

-----------------------------------------------------------------------------
(* The environment: a request's context is cancelled or times out.         *)

CancelCtx(r) ==
    /\ ctxErr[r] = "nil"
    /\ ctxErr' = [ctxErr EXCEPT ![r] = "Canceled"]
    /\ ret' = [NoRet EXCEPT !.op = "env"]
    /\ UNCHANGED <<c, attached, everReset, form, ress, calls>>

TimeoutCtx(r) ==
    /\ CtxHasDeadline(r)
    /\ ctxErr[r] = "nil"
    /\ ctxErr' = [ctxErr EXCEPT ![r] = "DeadlineExceeded"]
    /\ ret' = [NoRet EXCEPT !.op = "env"]
    /\ UNCHANGED <<c, attached, everReset, form, ress, calls>>

-----------------------------------------------------------------------------
DoReset == \E res \in Ress \cup {Nil}, req \in Reqs \cup {Nil} : Reset(res, req)
DoValue == \E key \in Keys : Value(key)
DoCancel == \E r \in Reqs : CancelCtx(r)
DoTimeout == \E r \in Reqs : TimeoutCtx(r)

\* The context.Context side of the wrapper, over every attachment.
NextCtx ==
    \/ DoReset
    \/ Request
    \/ Response
    \/ Deadline
    \/ Done
    \/ Err
    \/ DoValue
    \/ DoCancel
    \/ DoTimeout

SpecCtx == Init /\ [][NextCtx]_vars

\* The request accessors, over every attachment.
NextReq ==
    \/ DoReset
    \/ Header
    \/ Query
    \/ Vars
    \/ Form

SpecReq == Init /\ [][NextReq]_vars

\* The responders on one response writer, with every input.
DoAttach == \E res \in {Nil, 1}, req \in {Nil, 1} : Reset(res, req)
DoReturns == \E v \in Vals, err \in Errs, n \in AccVals :
                 CanRespond /\ Returns(v, err, n)
DoResult == \E code \in Codes, v \in Vals, n \in AccVals :
                 CanRespond /\ Result(code, v, n)
DoJSON == \E code \in Codes, v \in Vals, n \in AccVals :
                 CanRespond /\ JSON(code, v, n)
DoXML == \E code \in Codes, v \in Vals, n \in AccVals :
                 CanRespond /\ XML(code, v, n)
DoString == \E code \in Codes, text \in Texts, n \in AccVals :
                 CanRespond /\ String(code, text, n)
DoBlob == \E code \in Codes, ct \in CallerTypes, data \in Texts, n \in AccVals :
                 CanRespond /\ Blob(code, ct, data, n)
DoStream == \E code \in Codes, ct \in CallerTypes, rd \in Readers, n \in AccVals :
                 CanRespond /\ Stream(code, ct, rd, n)

NextRes ==
    \/ DoAttach
    \/ DoReturns
    \/ DoResult
    \/ DoJSON
    \/ DoXML
    \/ DoString
    \/ DoBlob
    \/ DoStream

SpecRes == Init /\ [][NextRes]_vars

\* Pooled reuse: the wrapper is re-attached between any two calls, every
\* accessor and responder is called, the responders on a healthy connection.
PoolReturns == CanRespond /\ Returns("v1", "nil", 2)
PoolResult == CanRespond /\ Result(404, "v1", 2)
PoolJSON == CanRespond /\ JSON(404, "v1", 2)
PoolXML == CanRespond /\ XML(404, "v1", 2)
PoolString == CanRespond /\ String(404, <<"a", "b">>, 2)
PoolBlob == CanRespond /\ Blob(404, "image/png", <<"a", "b">>, 2)
PoolStream == CanRespond /\
              Stream(404, "image/png", [content |-> <<"a", "b">>, fail |-> FALSE], 2)

Next ==
    \/ DoReset
    \/ Request
    \/ Response
    \/ Header
    \/ Query
    \/ Vars
    \/ Form
    \/ Deadline
    \/ Done
    \/ Err
    \/ DoValue
    \/ PoolReturns
    \/ PoolResult
    \/ PoolJSON
    \/ PoolXML
    \/ PoolString
    \/ PoolBlob
    \/ PoolStream

\* One wrapper of the pool; its route is set once, at construction.
InitPool == Init /\ c.route = 1

Spec == InitPool /\ [][Next]_vars

-----------------------------------------------------------------------------
(* Properties.                                                             *)

CtxOps == {"Deadline", "Done", "Err", "Value"}
TypedResponders == {"JSON", "XML", "String", "Blob", "Stream"}

\* What the four context methods answer with no request behind them.
DetachedAnswer(op) ==
    CASE op = "Deadline" -> NoDeadline
      [] op = "Done" -> NilChan
      [] op = "Err" -> "Canceled"
      [] op = "Value" -> NilValue

\* What request r's own context answers.
ContextAnswer(r, op, key) ==
    CASE op = "Deadline" -> CtxDeadline(r)
      [] op = "Done" -> CtxDone(r)
      [] op = "Err" -> ctxErr[r]
      [] op = "Value" -> CtxValue(r, key)

\* The error an encoder producing `out` for v reports on a connection that
\* accepts n more bytes.
EncoderError(v, out, n, marshalErr) ==
    IF ~Encodable(v) THEN marshalErr
    ELSE IF n < Len(out) THEN "EPIPE" ELSE "nil"

Prefix(data, n) == SubSeq(data, 1, IF n < Len(data) THEN n ELSE Len(data))

EndsWith(body, data) ==
    /\ Len(body) >= Len(data)
    /\ SubSeq(body, Len(body) - Len(data) + 1, Len(body)) = data

\* C1: on a wrapper whose Reset was never called, Err() is Canceled, Done()
\* is the nil channel, Deadline() reports no deadline and Value(key) is nil
\* for every key, and none of the four panics.
C1_DetachedAnswers ==
    (~everReset /\ ret.op \in CtxOps) =>
        /\ ~ret.panic
        /\ ret.val = DetachedAnswer(ret.op)

C1_Witness == ~everReset /\ ret.op = "Value" /\ ret.key = "user"
              /\ ret.val = NilValue

\* C2: Returns(v, err) with a non-nil err returns that err, does not invoke
\* the server's encoder and leaves the response untouched; with a nil err it
\* invokes the encoder exactly once, on the attached response/request pair,
\* and returns the encoder's error or nil.
C2_ReturnsShortCircuits ==
    [][ret'.op = "Returns" =>
          IF ret'.inerr # "nil"
          THEN /\ ~ret'.panic
               /\ ret'.err = ret'.inerr
               /\ ret'.enc = <<>>
               /\ ress' = ress
          ELSE ~ret'.panic =>
                 /\ ret'.enc = << <<attached.res, attached.req>> >>
                 /\ ret'.err = EncoderError(ret'.v,
                                   EncBytes(SrvOf(c.route), ret'.v),
                                   ret'.acc, "EncodingError")
    ]_vars

C2_Witness == /\ ret.op = "Returns" /\ ret.inerr = "ErrBadRequest"
              /\ ret.err = "ErrBadRequest" /\ ret.v = "v1"
              /\ attached.res # Nil /\ ress[attached.res] = FreshRes

\* C3: for JSON, XML, String, Blob and Stream the response sent with the
\* call's status code carries the call's Content-Type.
C3_ContentTypeSent ==
    (/\ ret.op \in TypedResponders /\ ~ret.panic
     /\ attached.res # Nil)
    => (ress[attached.res].status = ret.code
            => ress[attached.res].sentCT = ret.ct)

\* C4: Result(code, v) writes the status code first and only then the body
\* the server's encoder produces for v, and returns the encoder's error.
C4_ResultStatusThenBody ==
    [][(ret'.op = "Result" /\ ~ret'.panic) =>
          LET old == ress[attached.res]
              new == ress'[attached.res]
              out == EncBytes(SrvOf(c.route), ret'.v)
          IN /\ Len(ret'.tr) >= 1
             /\ ret'.tr[1] = "WriteHeader"
             /\ \A i \in 1..Len(ret'.tr) : ret'.tr[i] = "Write" => i > 1
             /\ ~old.wrote => new.status = ret'.code
             /\ ret'.enc = << <<attached.res, attached.req>> >>
             /\ ret'.err = EncoderError(ret'.v, out, ret'.acc, "EncodingError")
             /\ ret'.err = "nil" => new.body = old.body \o out
             /\ ~Encodable(ret'.v) => new.body = old.body
    ]_vars

C4_Witness == /\ ret.op = "Result" /\ ret.err = "nil" /\ ~ret.panic
              /\ attached.res # Nil
              /\ ress[attached.res].status = ret.code
              /\ ress[attached.res].body = EncBytes(SrvOf(c.route), ret.v)

\* C5: Reset(res, req) makes Request() and Response() return req and res and
\* leaves the route alone; every accessor reads, and every responder writes,
\* only the pair of the most recent Reset.
C5_ResetRebinds ==
    [][/\ c'.route = c.route
       /\ ret'.op = "Reset" => (c'.req = ret'.req /\ c'.res = ret'.res)
       /\ \A w \in Ress : w # attached'.res => ress'[w] = ress[w]
       /\ \A r \in Reqs : r # attached'.req => form'[r] = form[r]
       /\ ret'.op = "Request" => ret'.val = attached'.req
       /\ ret'.op = "Response" => ret'.val = attached'.res
       /\ (ret'.op = "Header" /\ ~ret'.panic)
              => ret'.val = ReqHeader(attached'.req)
       /\ (ret'.op = "Query" /\ ~ret'.panic)
              => ret'.val = ParseQuery(RawQuery(attached'.req)).vals
       /\ (ret'.op = "Vars" /\ ~ret'.panic)
              => DOMAIN ret'.val = DOMAIN MuxVars(attached'.req)
       /\ (ret'.op = "Form" /\ ~ret'.panic) => form'[attached'.req].set
       /\ ret'.op \in {"Header", "Query", "Vars", "Form"}
              => (ret'.panic <=> attached'.req = Nil)
       /\ (ret'.op \in {"Returns", "Result"} /\ ~ret'.panic)
              => ret'.enc = << <<attached'.res, attached'.req>> >>
       /\ (ret'.op \in TypedResponders \cup {"Result"})
              => IF attached'.res = Nil THEN ret'.panic
                 ELSE ress'[attached'.res].wrote
    ]_vars

C5_Witness == /\ ret.op = "String" /\ attached.res = 2 /\ attached.req = 1
              /\ ress[1].body = EncBytes(SrvOf(c.route), "v1")
              /\ ress[2].body = <<"a", "b">>
              /\ form[2].set /\ ~form[1].set

\* C6: with a request attached, Deadline, Done, Err and Value answer what the
\* context of the most recently attached request answers; after a Reset
\* with a nil request they give the detached answers again.
C6_ForwardsToAttached ==
    ret.op \in CtxOps =>
        /\ ~ret.panic
        /\ ret.val = IF attached.req = Nil THEN DetachedAnswer(ret.op)
                     ELSE ContextAnswer(attached.req, ret.op, ret.key)

C6_Witness == /\ ret.op = "Err" /\ attached.req = 2
              /\ ret.val = "DeadlineExceeded" /\ ctxErr[1] = "Canceled"

C8_VarsOneValuePerKey ==
    (ret.op = "Vars" /\ ~ret.panic) =>
        LET raws == MuxVars(attached.req) IN
        /\ DOMAIN ret.val = DOMAIN raws
        /\ \A k \in DOMAIN raws : ret.val[k] = <<raws[k]>>

C8_Witness == /\ ret.op = "Vars" /\ ~ret.panic /\ attached.req = 1
              /\ ret.val["id"] = <<"42">>

\* C9 as stated: Stream ends either with the reader exhausted, returning
\* nil with the whole content written, or with a failed write, returning
\* the write error.
C9_StreamEndsOnEOFOrWriteError ==
    (ret.op = "Stream" /\ ~ret.panic) =>
        \/ /\ ret.err = "nil"
           /\ EndsWith(ress[attached.res].body, ret.data)
        \/ /\ ret.err = "EPIPE"
           /\ ret.acc < Len(ret.data)

\* C9 amended: Stream copies in order until the reader is exhausted, a read
\* fails or a write fails: nil and the whole content on exhaustion, the
\* read error and what was read on a failed read, the write error and what
\* the connection accepted on a failed write.
C9_StreamPropagatesCopyError ==
    [][(ret'.op = "Stream" /\ ~ret'.panic) =>
          LET old == ress[attached.res]
              new == ress'[attached.res]
          IN /\ new.body = old.body \o Prefix(ret'.data, ret'.acc)
             /\ ret'.err = IF ret'.acc < Len(ret'.data) THEN "EPIPE"
                           ELSE IF ret'.rfail THEN "EREAD" ELSE "nil"
    ]_vars

C9_Witness == /\ ret.op = "Stream" /\ ~ret.panic /\ ret.err = "EREAD"
              /\ ress[attached.res].body = ret.data /\ ret.data # <<>>

\* C10: String and Blob return nil even when the body write fails, while
\* JSON, XML and Stream return the write or encode error.
C10_StringBlobDropWriteError ==
    /\ (ret.op \in {"String", "Blob"} /\ ~ret.panic) => ret.err = "nil"
    /\ (ret.op = "JSON" /\ ~ret.panic) =>
           ret.err = EncoderError(ret.v, JSONBytes(ret.v), ret.acc,
                                  "UnsupportedType")
    /\ (ret.op = "XML" /\ ~ret.panic) =>
           ret.err = EncoderError(ret.v, XMLBytes(ret.v), ret.acc,
                                  "UnsupportedType")
    /\ (ret.op = "Stream" /\ ~ret.panic /\ ret.acc < Len(ret.data)) =>
           ret.err = "EPIPE"

C10_Witness == /\ ret.op = "Blob" /\ ~ret.panic /\ ret.err = "nil"
               /\ ret.acc < Len(ret.data)
               /\ Len(ress[attached.res].body) < Len(ret.data)

=============================================================================
